---- MODULE Spec2Model ----
(***************************************************************************)
(* Presence-gated activity timer of FLY2ED/face-timer.                     *)
(*                                                                         *)
(* Three React units are modelled:                                         *)
(*   TimerProvider   (TimerContext: activeTask, isActive, isPaused, ...)   *)
(*   Timer           (gate flags, onFaceDetected / onFaceNotDetected,      *)
(*                    the arming and auto-start effects)                   *)
(*   useFaceDetection (the 150 ms sampling interval)                       *)
(*                                                                         *)
(* React semantics kept by the model:                                      *)
(*   - a handler or effect reads the state of the render that created it;  *)
(*     setters write the live state; refs are read and written live;       *)
(*   - the setInterval callback created inside startDetection lives across *)
(*     renders, so everything it reads (lastDetectionTime, onFaceDetected, *)
(*     onFaceNotDetected and, through them, the Timer flags and the        *)
(*     pauseTimer / resumeTimer closures) is the snapshot `cap` taken from *)
(*     the render whose startDetection created the interval;               *)
(*   - effects run after the render that follows a handler, in source      *)
(*     order, each seeing that render; the renders they cause are flushed  *)
(*     (Settle) before the next event.                                     *)
(***************************************************************************)
EXTENDS Integers, Sequences, FiniteSets, TLC

\* ------------------------------------------------------------------ bounds
T0 == 1000000          \* Date.now() when the page is mounted
MaxTime == 10500       \* modelled span of wall-clock time, in ms
CoarseStep == 2500     \* a stretch of time in which no modelled event occurs
MaxFine == 1           \* how many single sampling periods may be stepped
NumTasks == 2
MaxInflight == 2          \* detector calls that may be pending at once
MaxFrames == 7         \* sampling periods stepped one after the other

\* ------------------------------------------------------ program constants
SampleInterval == 150
NoFaceTimeout == 5000
ConfirmDelay == 5000
ResumeScore == 40
BlinkThreshold == 25
MinBlinkDuration == 100
MaxBlinkDuration == 500
BlinkWindow == 60000
PauseScore == 30

Tasks == 1..NumTasks
NoTask == 0            \* activeTask === null
Null == 0              \* a null timestamp (falsy, like 0, in the source)

\* =========================================================== TimerProvider
\* A TimerProvider function is a closure: `c` is the TimerProvider state of
\* the render that created it (what its body reads), `t` is the live state
\* its setters write to.

timer0 ==
  [activeTask |-> NoTask, isActive |-> FALSE, isPaused |-> FALSE,
   elapsedTime |-> 0, startTime |-> Null, lastElapsedTime |-> 0,
   taskTimes |-> [k \in Tasks |-> 0]]

\* startTimer as it would be if it ignored the time stored for the task
startTimer_fromZero(c, t, task, n) ==
  [t EXCEPT !.activeTask = task, !.isActive = TRUE, !.isPaused = FALSE,
            !.startTime = n, !.elapsedTime = 0, !.lastElapsedTime = 0]

startTimer(c, t, task, n) ==
  LET previousTimeForTask == c.taskTimes[task] IN
  IF previousTimeForTask > 0
  THEN [t EXCEPT !.activeTask = task, !.isActive = TRUE, !.isPaused = FALSE,
                 !.startTime = n - previousTimeForTask,
                 !.elapsedTime = previousTimeForTask,
                 !.lastElapsedTime = previousTimeForTask]
  ELSE [t EXCEPT !.activeTask = task, !.isActive = TRUE, !.isPaused = FALSE,
                 !.startTime = n, !.elapsedTime = 0, !.lastElapsedTime = 0]

pauseTimer(c, t) ==
  IF c.isActive /\ ~c.isPaused
  THEN [t EXCEPT !.isPaused = TRUE, !.lastElapsedTime = c.elapsedTime]
  ELSE t

resumeTimer(c, t, n) ==
  IF c.isPaused
  THEN [t EXCEPT !.startTime = n - c.lastElapsedTime, !.isPaused = FALSE]
  ELSE t

\* stopTimer as it would be if it did not record the elapsed time
stopTimer_noStore(c, t) ==
  [t EXCEPT !.isActive = FALSE, !.isPaused = FALSE, !.startTime = Null]

\* stopTimer as it would be if it cleared the active task
stopTimer_clearsTask(c, t) ==
  LET saved == IF c.isActive /\ c.activeTask # NoTask
               THEN [t EXCEPT !.taskTimes =
                                 [c.taskTimes EXCEPT ![c.activeTask] = c.elapsedTime],
                              !.lastElapsedTime = c.elapsedTime]
               ELSE t
  IN [saved EXCEPT !.isActive = FALSE, !.isPaused = FALSE, !.startTime = Null,
                   !.activeTask = NoTask]

stopTimer(c, t) ==
  LET saved == IF c.isActive /\ c.activeTask # NoTask
               THEN [t EXCEPT !.taskTimes =
                                 [c.taskTimes EXCEPT ![c.activeTask] = c.elapsedTime],
                              !.lastElapsedTime = c.elapsedTime]
               ELSE t
  IN [saved EXCEPT !.isActive = FALSE, !.isPaused = FALSE, !.startTime = Null]

resetTimer(c, t) ==
  LET cleared == IF c.activeTask # NoTask
                 THEN [t EXCEPT !.taskTimes =
                                   [c.taskTimes EXCEPT ![c.activeTask] = 0]]
                 ELSE t
  IN [cleared EXCEPT !.activeTask = NoTask, !.isActive = FALSE,
                     !.isPaused = FALSE, !.elapsedTime = 0,
                     !.lastElapsedTime = 0, !.startTime = Null]

\* the 10 ms interval of the tick effect; it exists while isActive && !isPaused
tickEnabled(t) == t.isActive /\ ~t.isPaused

tick(t, n) ==
  IF t.startTime # Null
  THEN [t EXCEPT !.elapsedTime = n - t.startTime,
                 !.lastElapsedTime = n - t.startTime]
  ELSE t

\* ------------------------------------------------------------ localStorage
\* A key holds <<value>> or <<>> (getItem returns null).  task_times holds the
\* per-task map (a task without a key reads as 0, as in taskTimes[id] || 0),
\* timer_state the record {task, elapsed, active, paused}.
storage0 == [task_times |-> <<>>, timer_state |-> <<>>]

saveTimerState(c, ls) ==
  [ls EXCEPT !.task_times = <<c.taskTimes>>,
             !.timer_state =
                IF c.activeTask # NoTask
                THEN <<[task |-> c.activeTask, elapsed |-> c.elapsedTime,
                        active |-> c.isActive, paused |-> c.isPaused]>>
                ELSE @]

\* the save effect runs after a render in which one of its dependencies changed
saveEffect(prev, cur, ls) ==
  IF prev.activeTask # cur.activeTask \/ prev.elapsedTime # cur.elapsedTime
     \/ prev.isActive # cur.isActive \/ prev.isPaused # cur.isPaused
     \/ prev.taskTimes # cur.taskTimes
  THEN saveTimerState(cur, ls)
  ELSE ls

\* what stopTimer writes to localStorage itself
stopTimerStorage(c, ls) ==
  LET saved == IF c.isActive /\ c.activeTask # NoTask
               THEN [ls EXCEPT !.task_times =
                        <<[c.taskTimes EXCEPT ![c.activeTask] = c.elapsedTime]>>]
               ELSE ls
  IN [saved EXCEPT !.timer_state =
        <<[task |-> c.activeTask, elapsed |-> c.elapsedTime,
           active |-> FALSE, paused |-> FALSE]>>]

\* what resetTimer writes to localStorage itself
resetTimerStorage(c, ls) ==
  LET cleared == IF c.activeTask # NoTask
                 THEN [ls EXCEPT !.task_times =
                          <<[c.taskTimes EXCEPT ![c.activeTask] = 0]>>]
                 ELSE ls
  IN [cleared EXCEPT !.timer_state = <<>>]

\* the load effect of the first render, run at time n: the state its setters
\* produce
loadTimerState(ls, n) ==
  LET t1 == IF ls.task_times # <<>>
            THEN [timer0 EXCEPT !.taskTimes = ls.task_times[1]]
            ELSE timer0
  IN IF ls.timer_state # <<>> /\ ls.timer_state[1].task # NoTask
     THEN LET st == ls.timer_state[1]
              t2 == [t1 EXCEPT !.activeTask = st.task,
                               !.elapsedTime = st.elapsed,
                               !.lastElapsedTime = st.elapsed]
          IN IF st.active /\ ~st.paused
             THEN [t2 EXCEPT !.isActive = TRUE, !.isPaused = FALSE,
                             !.startTime = n - st.elapsed]
             ELSE [t2 EXCEPT !.isActive = st.active, !.isPaused = st.paused]
     ELSE t1


\* ============================================ useFaceDetection: pure parts
\* EAR and MAR are carried in hundredths (ear = 25 is 0.25), angles in degrees.

\* calculateAttentionScore as it would be if every matching tier of a signal
\* were deducted
calculateAttentionScore_allTiers(ear, mar, headPose, gazeDirection, blinkRate) ==
  LET abs(x) == IF x < 0 THEN -x ELSE x
      totalHeadMovement == abs(headPose.yaw) + abs(headPose.pitch) + abs(headPose.roll)
      dEar == (IF ear < 15 THEN 40 ELSE 0) + (IF ear < 20 THEN 25 ELSE 0)
              + (IF ear < 25 THEN 10 ELSE 0)
      dMar == (IF mar > 70 THEN 30 ELSE 0) + (IF mar > 50 THEN 15 ELSE 0)
      dHead == (IF totalHeadMovement > 45 THEN 25 ELSE 0)
               + (IF totalHeadMovement > 25 THEN 15 ELSE 0)
      dGaze == IF gazeDirection # "center" THEN 20 ELSE 0
      dBlink == (IF blinkRate < 8 THEN 35 ELSE 0) + (IF blinkRate < 12 THEN 20 ELSE 0)
                + (IF blinkRate > 35 THEN 25 ELSE 0) + (IF blinkRate > 25 THEN 10 ELSE 0)
      score == 100 - dEar - dMar - dHead - dGaze - dBlink
      min100 == IF score > 100 THEN 100 ELSE score
  IN IF min100 < 0 THEN 0 ELSE min100

calculateAttentionScore(ear, mar, headPose, gazeDirection, blinkRate) ==
  LET abs(x) == IF x < 0 THEN -x ELSE x
      totalHeadMovement == abs(headPose.yaw) + abs(headPose.pitch) + abs(headPose.roll)
      dEar == IF ear < 15 THEN 40 ELSE IF ear < 20 THEN 25 ELSE IF ear < 25 THEN 10 ELSE 0
      dMar == IF mar > 70 THEN 30 ELSE IF mar > 50 THEN 15 ELSE 0
      dHead == IF totalHeadMovement > 45 THEN 25
               ELSE IF totalHeadMovement > 25 THEN 15 ELSE 0
      dGaze == IF gazeDirection # "center" THEN 20 ELSE 0
      dBlink == IF blinkRate < 8 THEN 35 ELSE IF blinkRate < 12 THEN 20
                ELSE IF blinkRate > 35 THEN 25 ELSE IF blinkRate > 25 THEN 10 ELSE 0
      score == 100 - dEar - dMar - dHead - dGaze - dBlink
      min100 == IF score > 100 THEN 100 ELSE score
  IN IF min100 < 0 THEN 0 ELSE min100

assessFatigueLevel(attentionScore, ear, consecutiveDrowsyFrames) ==
  IF attentionScore < 30 \/ ear < 15 \/ consecutiveDrowsyFrames > 10 THEN "high"
  ELSE IF attentionScore < 60 \/ ear < 20 \/ consecutiveDrowsyFrames > 5 THEN "medium"
  ELSE "low"

\* what the detector can return for one sampled frame when it finds a face
Frame(e, m) ==
  [ear |-> e, mar |-> m, headPose |-> [yaw |-> 0, pitch |-> 0, roll |-> 0],
   gazeDirection |-> "center"]

\* an attentive face, a yawning face and a face with closed eyes
Frames == {Frame(30, 30), Frame(30, 80), Frame(10, 30)}

\* the arguments the analysis functions are tried on: EAR and MAR around
\* their thresholds, head angles, gaze, blinks per minute and drowsy-frame
\* counts around theirs
AnalysisInputs ==
  [ear : {10, 14, 15, 19, 20, 24, 25, 30},
   mar : {30, 50, 51, 70, 71},
   headPose : [yaw : {-30, 0, 20}, pitch : {-16, 0, 6}, roll : {0, 5}],
   gazeDirection : {"center", "left"},
   blinkRate : {0, 7, 8, 11, 12, 25, 26, 35, 36},
   consecutiveDrowsyFrames : {0, 5, 6, 10, 11}]

\* ================================================ component state and refs
gate0 ==
  [isCameraMode |-> FALSE, isWaitingForFace |-> FALSE, canStartTimer |-> FALSE,
   faceDetectedStartTime |-> Null]

hook0 ==
  [isModelLoaded |-> FALSE, isDetecting |-> FALSE, lastDetectionTime |-> T0]

\* the blink tracker (isEyeClosed, lastBlinkTime, blinkTimestamps) and the
\* consecutive-drowsy-frame counter of useFaceDetection
tracker0 ==
  [consecutiveDrowsyFrames |-> 0, isEyeClosed |-> FALSE, lastBlinkTime |-> 0,
   blinkTimestamps |-> <<>>]

\* observers of the run (no program state): what the last step did and when
\* the events the claims speak about happened
obs0 ==
  [started |-> NoTask,      \* the task a manual startTimer call of this step got
   auto |-> FALSE,          \* this step started the timer from an effect
   notified |-> FALSE,      \* this step delivered onFaceNotDetected
   kind |-> "",             \* "face" / "absent": what the sample of this step saw,
                            \* "error" when the detector threw;
                            \* "pause" / "resume" / "stop" / "reset": the
                            \* TimerContext operation the user called in this step
   manual |-> FALSE,        \* the user paused the timer in camera mode and has
                            \* not resumed, stopped, reset or restarted it since
   stale |-> FALSE,         \* this step's detector response is for a frame
                            \* older than one already answered
   moved |-> "",            \* "paused" / "resumed": the phase change the face
                            \* callback of this step made
   input |-> <<>>,          \* the arguments the analysis functions are tried on
   result |-> <<>>,         \* the analysis result this step delivered, if any
   confirmed |-> FALSE,     \* this step was the confirmation timeout
   interrupted |-> FALSE,   \* a notification or an arming came after the timestamp
   gap |-> FALSE,           \* a sample without a face came after the timestamp
   wasInterrupted |-> FALSE,\* some confirmation in progress was cancelled by a notification
   consumed |-> FALSE,      \* an automatic start happened and no arming since
   lastFace |-> FALSE,      \* the latest sample of this interval had a face
   fires |-> 0,             \* notifications in the current absence episode (0, 1, many)
   reloaded |-> FALSE,      \* the page has been loaded again
   ran |-> 0,               \* wall-clock time spent Running since the latest start
   late |-> FALSE,          \* since then a Running phase ended after an instant
                            \* at which the tick interval had not fired
   closedAt |-> Null,       \* when the eyes were first sampled below the blink
                            \* threshold since they were last sampled open
   loops |-> 0,             \* setInterval handles created and not cleared
   refused |-> FALSE,       \* this step called startDetection while detection
                            \* was running, and the call returned at its guard
   reached |-> [k \in Tasks |-> 0],
                            \* per task, the elapsed time it had when it was last
                            \* the active task (0 after resetTimer for it)
   fine |-> 0]              \* single sampling periods stepped so far

VARIABLES
  timer,                    \* TimerProvider state
  gate,                     \* Timer gate flags (useTimerState)
  hook,                     \* useFaceDetection state
  faceDetectionTimeoutRef,  \* deadline of the pending confirmation timeout, or Null
  isDetectingRef,
  cap,                      \* <<snapshot>> read by the running sampling interval, or <<>>
  retry,                    \* snapshots of startDetection calls waiting for the video
  sampled,                  \* the interval already fired at this instant
  stopClicked,              \* the stop button handler is at its await
  videoReady,               \* the video element has a frame (camera on)
  now,                      \* Date.now()
  localStorage,             \* the keys task_times and timer_state
  loading,                  \* <<state>> the load effect has queued, or <<>>
  tracker,                  \* blink tracker and drowsy-frame counter
  inflight,                 \* the interval callbacks that are awaiting the
                            \* detector, oldest first: [c |-> snapshot,
                            \* overtaken |-> a later call was answered first]
  obs

vars == <<timer, gate, hook, faceDetectionTimeoutRef, isDetectingRef, cap, retry,
          sampled, stopClicked, videoReady, now, localStorage, loading, tracker,
          inflight, obs>>

\* the program state a handler or an effect works on
World ==
  [t |-> timer, g |-> gate, h |-> hook, tmo |-> faceDetectionTimeoutRef,
   dref |-> isDetectingRef, cap |-> cap, retry |-> retry, smp |-> sampled,
   ls |-> localStorage, trk |-> tracker, pend |-> inflight, o |-> obs]

\* what a closure created in the render of world w reads
Snapshot(w) ==
  [t |-> [isActive |-> w.t.isActive, isPaused |-> w.t.isPaused,
          activeTask |-> w.t.activeTask, elapsedTime |-> w.t.elapsedTime,
          lastElapsedTime |-> w.t.lastElapsedTime],
   g |-> w.g, isModelLoaded |-> w.h.isModelLoaded,
   lastDetectionTime |-> w.h.lastDetectionTime,
   consecutiveDrowsyFrames |-> w.trk.consecutiveDrowsyFrames,
   blinkTimestamps |-> w.trk.blinkTimestamps,
   isEyeClosed |-> w.trk.isEyeClosed, lastBlinkTime |-> w.trk.lastBlinkTime]

Step(w) ==
  [w EXCEPT !.o.started = NoTask, !.o.auto = FALSE, !.o.notified = FALSE,
            !.o.confirmed = FALSE, !.o.kind = "", !.o.result = <<>>,
            !.o.refused = FALSE, !.o.moved = "", !.o.stale = FALSE,
            !.o.ran = IF w.t.isActive THEN @ ELSE 0,
            !.o.late = w.t.isActive /\ @]

\* ------------------------------------------------ useFaceDetection handlers
\* startDetection of the render snapshot c, run on the live world a
\* startDetection as it would be without the isDetectingRef guard
startDetection_unguarded(c, a, ready, n) ==
  IF ~c.isModelLoaded THEN a
  ELSE IF ~ready THEN [a EXCEPT !.retry = @ \cup {c}]
  ELSE [a EXCEPT !.h.isDetecting = TRUE, !.dref = TRUE,
                 !.h.lastDetectionTime = n, !.cap = <<c>>, !.retry = {},
                 !.smp = TRUE, !.o.lastFace = FALSE, !.o.loops = @ + 1]

startDetection(c, a, ready, n) ==
  IF ~c.isModelLoaded THEN a
  ELSE IF a.dref THEN [a EXCEPT !.o.refused = TRUE]
  ELSE IF ~ready THEN [a EXCEPT !.retry = @ \cup {c}]
  ELSE [a EXCEPT !.h.isDetecting = TRUE, !.dref = TRUE,
                 !.h.lastDetectionTime = n, !.cap = <<c>>, !.retry = {},
                 !.smp = TRUE, !.o.lastFace = FALSE, !.o.loops = @ + 1]

\* memoizedStopDetection as it would be if it also reset the gate
memoizedStopDetection_resetsGate(a) ==
  [a EXCEPT !.h.isDetecting = FALSE, !.dref = FALSE, !.cap = <<>>,
            !.trk = tracker0, !.tmo = Null, !.g.faceDetectedStartTime = Null,
            !.g.canStartTimer = FALSE, !.g.isWaitingForFace = FALSE,
            !.o.loops = IF a.cap # <<>> THEN @ - 1 ELSE @]

\* clearInterval removes the interval (cap); a callback already awaiting the
\* detector (pend) is not touched
memoizedStopDetection(a) ==
  [a EXCEPT !.h.isDetecting = FALSE, !.dref = FALSE, !.cap = <<>>,
            !.trk = tracker0,
            !.o.loops = IF a.cap # <<>> THEN @ - 1 ELSE @, !.o.closedAt = Null]

\* ------------------------------------------------------- Timer: callbacks
startFaceDetectionTimer(a, n) ==
  IF a.tmo = Null
  THEN [a EXCEPT !.g.faceDetectedStartTime = n, !.tmo = n + ConfirmDelay,
                 !.o.interrupted = FALSE, !.o.gap = FALSE]
  ELSE a

\* onFaceDetected as it would be if it paused on the isDrowsy flag of the
\* result
onFaceDetected_pausesDrowsy(c, a, result, n) ==
  LET a1 == IF c.g.isWaitingForFace /\ ~c.g.canStartTimer
            THEN IF c.g.faceDetectedStartTime = Null
                 THEN startFaceDetectionTimer(a, n) ELSE a
            ELSE IF c.g.isCameraMode /\ c.t.isActive /\ c.t.isPaused
                    /\ result.attentionScore > ResumeScore
                 THEN [a EXCEPT !.t = resumeTimer(c.t, a.t, n),
                                !.o.moved = IF a.t.isActive /\ a.t.isPaused
                                            THEN "resumed" ELSE @]
                 ELSE a
  IN IF c.g.isCameraMode
        /\ (result.isDrowsy \/ result.attentionScore < PauseScore)
        /\ c.t.isActive /\ ~c.t.isPaused
     THEN [a1 EXCEPT !.t = pauseTimer(c.t, a1.t),
                     !.o.moved = IF a1.t.isActive /\ ~a1.t.isPaused
                                 THEN "paused" ELSE @]
     ELSE a1

\* onFaceDetected as it would be with the thresholds of the README
onFaceDetected_readme(c, a, result, n) ==
  LET a1 == IF c.g.isWaitingForFace /\ ~c.g.canStartTimer
            THEN IF c.g.faceDetectedStartTime = Null
                 THEN startFaceDetectionTimer(a, n) ELSE a
            ELSE IF c.g.isCameraMode /\ c.t.isActive /\ c.t.isPaused
                    /\ result.attentionScore > 60
                 THEN [a EXCEPT !.t = resumeTimer(c.t, a.t, n),
                                !.o.moved = IF a.t.isActive /\ a.t.isPaused
                                            THEN "resumed" ELSE @]
                 ELSE a
  IN IF c.g.isCameraMode
        /\ (result.fatigueLevel = "high" \/ result.attentionScore < 40)
        /\ c.t.isActive /\ ~c.t.isPaused
     THEN [a1 EXCEPT !.t = pauseTimer(c.t, a1.t),
                     !.o.moved = IF a1.t.isActive /\ ~a1.t.isPaused
                                 THEN "paused" ELSE @]
     ELSE a1

onFaceDetected(c, a, result, n) ==
  LET a1 == IF c.g.isWaitingForFace /\ ~c.g.canStartTimer
            THEN IF c.g.faceDetectedStartTime = Null
                 THEN startFaceDetectionTimer(a, n) ELSE a
            ELSE IF c.g.isCameraMode /\ c.t.isActive /\ c.t.isPaused
                    /\ result.attentionScore > ResumeScore
                 THEN [a EXCEPT !.t = resumeTimer(c.t, a.t, n),
                                !.o.moved = IF a.t.isActive /\ a.t.isPaused
                                            THEN "resumed" ELSE @]
                 ELSE a
  IN IF c.g.isCameraMode
        /\ (result.fatigueLevel = "high" \/ result.attentionScore < PauseScore)
        /\ c.t.isActive /\ ~c.t.isPaused
     THEN [a1 EXCEPT !.t = pauseTimer(c.t, a1.t),
                     !.o.moved = IF a1.t.isActive /\ ~a1.t.isPaused
                                 THEN "paused" ELSE @]
     ELSE a1

\* onFaceNotDetected as it would be if it left the pending timeout alone
onFaceNotDetected_keepsTimeout(c, a, n) ==
  LET a1 == [a EXCEPT !.g.faceDetectedStartTime = Null,
                      !.g.canStartTimer = FALSE,
                      !.o.notified = TRUE, !.o.interrupted = TRUE,
                      !.o.wasInterrupted = @ \/ a.tmo # Null,
                      !.o.fires = IF @ < 2 THEN @ + 1 ELSE @]
  IN IF ~c.t.isActive THEN a1
     ELSE IF c.g.isCameraMode /\ c.t.isActive /\ ~c.t.isPaused
             /\ c.t.activeTask # NoTask
          THEN [a1 EXCEPT !.t = pauseTimer(c.t, a1.t)]
          ELSE a1

onFaceNotDetected(c, a, n) ==
  LET a1 == [a EXCEPT !.tmo = Null, !.g.faceDetectedStartTime = Null,
                      !.g.canStartTimer = FALSE,
                      !.o.notified = TRUE, !.o.interrupted = TRUE,
                      !.o.wasInterrupted = @ \/ a.tmo # Null,
                      !.o.fires = IF @ < 2 THEN @ + 1 ELSE @]
  IN IF ~c.t.isActive THEN a1
     ELSE IF c.g.isCameraMode /\ c.t.isActive /\ ~c.t.isPaused
             /\ c.t.activeTask # NoTask
          THEN [a1 EXCEPT !.t = pauseTimer(c.t, a1.t)]
          ELSE a1

\* the number of blink timestamps of the last minute, as detectBlink returns it
recentBlinks(blinkTimestamps, n) ==
  Cardinality({i \in 1..Len(blinkTimestamps) :
                 n - blinkTimestamps[i] <= BlinkWindow})

\* isDrowsyFromBlinks of assessDrowsinessFromBlinks
assessDrowsinessFromBlinks(blinksPerMinute) ==
  IF blinksPerMinute < 8 THEN TRUE
  ELSE IF blinksPerMinute < 12 THEN TRUE
  ELSE FALSE

\* one firing of the setInterval callback; detection is <<>> (no face) or
\* <<frame>>
sample(c, a, detection, n) ==
  IF detection # <<>>
  THEN LET f == detection[1]
           blinkRate == recentBlinks(c.blinkTimestamps, n)
           attentionScore == calculateAttentionScore(f.ear, f.mar, f.headPose,
                                                     f.gazeDirection, blinkRate)
           fatigueLevel == assessFatigueLevel(attentionScore, f.ear,
                                              c.consecutiveDrowsyFrames)
           abs(x) == IF x < 0 THEN -x ELSE x
           isDrowsy == \/ f.ear < 20 \/ f.mar > 40 \/ abs(f.headPose.pitch) > 25
                       \/ assessDrowsinessFromBlinks(blinkRate)
           result == [isDrowsy |-> isDrowsy, attentionScore |-> attentionScore,
                      fatigueLevel |-> fatigueLevel,
                      ear |-> f.ear, mar |-> f.mar, headPose |-> f.headPose,
                      gazeDirection |-> f.gazeDirection,
                      blinkRate |-> blinkRate]
           a1 == [a EXCEPT !.h.lastDetectionTime = n,
                           !.o.kind = "face", !.o.result = <<result>>,
                           !.o.lastFace = TRUE, !.o.fires = 0]
       IN onFaceDetected(c, a1, result, n)
  ELSE LET a1 == [a EXCEPT !.o.kind = "absent", !.o.lastFace = FALSE,
                           !.o.gap = TRUE] IN
       IF n - c.lastDetectionTime > NoFaceTimeout
       THEN [onFaceNotDetected(c, a1, n) EXCEPT !.h.lastDetectionTime = n]
       ELSE a1


\* a firing of the setInterval callback in which the detector call throws:
\* the catch clause logs the error and nothing else
sampleThrown(c, a) ==
  [a EXCEPT !.o.kind = "error", !.o.lastFace = FALSE, !.o.gap = TRUE]

\* detectBlink of the render snapshot c: what it writes to the tracker
detectBlink(c, a, ear, n) ==
  IF ear < BlinkThreshold /\ ~c.isEyeClosed
  THEN [a EXCEPT !.trk.isEyeClosed = TRUE, !.trk.lastBlinkTime = n]
  ELSE IF ear >= BlinkThreshold /\ c.isEyeClosed
  THEN LET blinkDuration == n - c.lastBlinkTime IN
       IF blinkDuration >= MinBlinkDuration /\ blinkDuration <= MaxBlinkDuration
       THEN [a EXCEPT !.trk.blinkTimestamps =
                         SelectSeq(Append(@, n),
                                   LAMBDA timestamp : n - timestamp <= BlinkWindow),
                      !.trk.isEyeClosed = FALSE]
       ELSE [a EXCEPT !.trk.isEyeClosed = FALSE]
  ELSE a

\* sampleResolved as it would be if the drowsy-frame count were written from
\* the value the closure holds
sampleResolved_staleCount(c, a, detection, n) ==
  IF detection # <<>>
  THEN LET f == detection[1]
           abs(x) == IF x < 0 THEN -x ELSE x
           blinkRate == recentBlinks(c.blinkTimestamps, n)
           isDrowsy == \/ f.ear < 20 \/ f.mar > 40 \/ abs(f.headPose.pitch) > 25
                       \/ assessDrowsinessFromBlinks(blinkRate)
           a1 == detectBlink(c, a, f.ear, n)
           a2 == [a1 EXCEPT !.trk.consecutiveDrowsyFrames =
                               IF isDrowsy THEN c.consecutiveDrowsyFrames + 1
                               ELSE 0,
                            !.o.closedAt = IF f.ear >= BlinkThreshold THEN Null
                                           ELSE IF @ = Null THEN n ELSE @]
       IN sample(c, a2, detection, n)
  ELSE sample(c, a, detection, n)

\* the part of the setInterval callback that runs after the detector call
\* has resolved, with what it writes to the tracker
sampleResolved(c, a, detection, n) ==
  IF detection # <<>>
  THEN LET f == detection[1]
           abs(x) == IF x < 0 THEN -x ELSE x
           blinkRate == recentBlinks(c.blinkTimestamps, n)
           isDrowsy == \/ f.ear < 20 \/ f.mar > 40 \/ abs(f.headPose.pitch) > 25
                       \/ assessDrowsinessFromBlinks(blinkRate)
           a1 == detectBlink(c, a, f.ear, n)
           a2 == [a1 EXCEPT !.trk.consecutiveDrowsyFrames =
                               IF isDrowsy THEN @ + 1 ELSE 0,
                            !.o.closedAt = IF f.ear >= BlinkThreshold THEN Null
                                           ELSE IF @ = Null THEN n ELSE @]
       IN sample(c, a2, detection, n)
  ELSE sample(c, a, detection, n)

\* --------------------------------------------------------- Timer: effects
\* Each effect reads the render `cur` (and `prev` to know whether one of its
\* dependencies changed) and writes to the live world `a`.

\* arm the gate and start detection
\* the arming effect as it would be if it ran only when camera mode changes
armEffect_onModeChange(prev, cur, a, ready, n) ==
  IF prev.g.isCameraMode # cur.g.isCameraMode
     /\ cur.g.isCameraMode /\ ~cur.t.isActive /\ cur.h.isModelLoaded
     /\ ~cur.h.isDetecting
  THEN startDetection(Snapshot(cur),
                      [a EXCEPT !.g.isWaitingForFace = TRUE,
                                !.g.faceDetectedStartTime = Null,
                                !.g.canStartTimer = FALSE, !.tmo = Null,
                                !.o.interrupted = TRUE, !.o.consumed = FALSE],
                      ready, n)
  ELSE a

armEffect(prev, cur, a, ready, n) ==
  IF (prev.g.isCameraMode # cur.g.isCameraMode \/ prev.t.isActive # cur.t.isActive
      \/ prev.h.isModelLoaded # cur.h.isModelLoaded
      \/ prev.h.isDetecting # cur.h.isDetecting)
     /\ cur.g.isCameraMode /\ ~cur.t.isActive /\ cur.h.isModelLoaded
     /\ ~cur.h.isDetecting
  THEN startDetection(Snapshot(cur),
                      [a EXCEPT !.g.isWaitingForFace = TRUE,
                                !.g.faceDetectedStartTime = Null,
                                !.g.canStartTimer = FALSE, !.tmo = Null,
                                !.o.interrupted = TRUE, !.o.consumed = FALSE],
                      ready, n)
  ELSE a

\* start detection as soon as the video has a frame (isCameraEnabled holds
\* exactly while isCameraMode does, outside the stop button's await)
videoReadyEffect(cur, a, ready, n) ==
  IF cur.g.isCameraMode /\ ~cur.h.isDetecting /\ cur.h.isModelLoaded /\ ready
  THEN startDetection(Snapshot(cur), a, ready, n)
  ELSE a

\* the auto-start effect as it would be if it did not look at canStartTimer
autoStartEffect_unconfirmed(cur, a, n) ==
  IF ~cur.t.isActive
  THEN IF cur.t.activeTask # NoTask
       THEN [a EXCEPT !.g.isWaitingForFace = FALSE, !.g.canStartTimer = FALSE,
                      !.t = startTimer(cur.t, a.t, cur.t.activeTask, n),
                      !.o.auto = TRUE, !.o.consumed = TRUE]
       ELSE [a EXCEPT !.g.isWaitingForFace = FALSE]
  ELSE a

autoStartEffect(cur, a, n) ==
  IF cur.g.canStartTimer /\ ~cur.t.isActive
  THEN IF cur.t.activeTask # NoTask
       THEN [a EXCEPT !.g.isWaitingForFace = FALSE, !.g.canStartTimer = FALSE,
                      !.t = startTimer(cur.t, a.t, cur.t.activeTask, n),
                      !.o.auto = TRUE, !.o.consumed = TRUE]
       ELSE [a EXCEPT !.g.isWaitingForFace = FALSE]
  ELSE a

taskSelectedEffect(cur, a, n) ==
  IF cur.t.activeTask # NoTask /\ cur.g.canStartTimer /\ ~cur.t.isActive
     /\ cur.g.isCameraMode
  THEN [a EXCEPT !.g.canStartTimer = FALSE,
                 !.t = startTimer(cur.t, a.t, cur.t.activeTask, n),
                 !.o.auto = TRUE, !.o.consumed = TRUE]
  ELSE a

cameraOffEffect(prev, cur, a) ==
  IF prev.g.isCameraMode # cur.g.isCameraMode /\ ~cur.g.isCameraMode
  THEN [a EXCEPT !.tmo = Null, !.g.faceDetectedStartTime = Null,
                 !.g.canStartTimer = FALSE, !.g.isWaitingForFace = FALSE]
  ELSE a

Effects(prev, cur, ready, n) ==
  LET a1 == armEffect(prev, cur, cur, ready, n)
      a2 == videoReadyEffect(cur, a1, ready, n)
      a3 == autoStartEffect(cur, a2, n)
      a4 == taskSelectedEffect(cur, a3, n)
      a5 == cameraOffEffect(prev, cur, a4)
  IN [a5 EXCEPT !.ls = saveEffect(prev.t, cur.t, @)]

RECURSIVE Settle(_, _, _, _)
Settle(prev, cur, ready, n) ==
  LET next == Effects(prev, cur, ready, n) IN
  IF next.t = cur.t /\ next.g = cur.g /\ next.h = cur.h
  THEN next
  ELSE Settle(cur, next, ready, n)

Apply(w) ==
  /\ timer' = w.t
  /\ gate' = w.g
  /\ hook' = w.h
  /\ faceDetectionTimeoutRef' = w.tmo
  /\ isDetectingRef' = w.dref
  /\ cap' = w.cap
  /\ retry' = w.retry
  /\ sampled' = w.smp
  /\ localStorage' = w.ls
  /\ tracker' = w.trk
  /\ inflight' = w.pend
  /\ LET reached == IF w.t.activeTask # NoTask
                    THEN [w.o.reached EXCEPT ![w.t.activeTask] = w.t.elapsedTime]
                    ELSE w.o.reached
     IN obs' = IF w.o.started # NoTask \/ w.o.auto \/ ~w.t.isActive
               THEN [w.o EXCEPT !.ran = IF w.t.isActive THEN 0 ELSE @,
                                !.late = IF w.t.isActive THEN FALSE
                                         ELSE @ \/ (timer.isActive /\ ~timer.isPaused
                                                     /\ tick(timer, now) # timer),
                                !.reached = reached]
               ELSE [w.o EXCEPT !.late = @ \/ (timer.isActive /\ ~timer.isPaused
                                                /\ w.t.isPaused
                                                /\ tick(timer, now) # timer),
                                !.reached = reached]

\* no event is handled between the mount and the render that applies what
\* the load effect read
Commit(w) ==
  /\ loading = <<>>
  /\ Apply(w)
  /\ loading' = loading

\* the pause / resume button of Timer: the button row is rendered when
\* activeTask && (isActive || isWaitingForFace), the button carries
\* disabled={isWaitingForFace}
pauseButtonShown(t, g) ==
  t.activeTask # NoTask /\ (t.isActive \/ g.isWaitingForFace)

pauseButtonDisabled(g) == g.isWaitingForFace

\* ------------------------------------------------------------------ Init
Init ==
  /\ timer = timer0
  /\ gate = gate0
  /\ hook = hook0
  /\ faceDetectionTimeoutRef = Null
  /\ isDetectingRef = FALSE
  /\ cap = <<>>
  /\ retry = {}
  /\ sampled = FALSE
  /\ stopClicked = FALSE
  /\ videoReady = FALSE
  /\ now = T0
  /\ localStorage = saveTimerState(timer0, storage0)
  /\ loading = <<>>
  /\ tracker = tracker0
  /\ inflight = <<>>
  /\ obs = obs0

\* --------------------------------------------------------------- actions
ModelLoaded ==
  /\ ~hook.isModelLoaded
  /\ Commit(Settle(World, [Step(World) EXCEPT !.h.isModelLoaded = TRUE],
                   videoReady, now))
  /\ UNCHANGED <<stopClicked, videoReady, now>>

ToggleCameraModeOn ==
  /\ ~gate.isCameraMode /\ ~stopClicked
  /\ \E ready \in BOOLEAN :
       LET click == Snapshot(World)
           w == Settle(World,
                       [Step(World) EXCEPT !.g.isWaitingForFace = FALSE,
                                                       !.g.isCameraMode = TRUE],
                       ready, now)
       IN /\ Commit(IF click.isModelLoaded /\ ~w.dref
                    THEN [w EXCEPT !.retry = @ \cup {click}] ELSE w)
          /\ videoReady' = ready
  /\ UNCHANGED <<stopClicked, now>>

ToggleCameraModeOff ==
  /\ gate.isCameraMode /\ ~stopClicked
  /\ Commit(Settle(World,
                   memoizedStopDetection(
                     [Step(World) EXCEPT !.g.isCameraMode = FALSE,
                                                      !.g.isWaitingForFace = FALSE]),
                   FALSE, now))
  /\ videoReady' = FALSE
  /\ UNCHANGED <<stopClicked, now>>

VideoReady ==
  /\ gate.isCameraMode /\ ~videoReady
  /\ Commit(Settle(World, Step(World), TRUE, now))
  /\ videoReady' = TRUE
  /\ UNCHANGED <<stopClicked, now>>

RetryStartDetection ==
  /\ gate.isCameraMode /\ ~videoReady /\ retry # {}
  /\ \E c \in retry :
       LET w == startDetection(c, Step(World), TRUE, now)
       IN Commit(Settle(World, w, TRUE, now))
  /\ videoReady' = TRUE
  /\ UNCHANGED <<stopClicked, now>>

Sample ==
  /\ isDetectingRef /\ cap # <<>> /\ videoReady /\ ~sampled
  /\ \E detection \in {<<>>} \cup {<<f>> : f \in Frames} :
       Commit(Settle(World,
                     sample(cap[1], [Step(World) EXCEPT !.smp = TRUE],
                            detection, now),
                     videoReady, now))
  /\ UNCHANGED <<stopClicked, videoReady, now>>

\* SampleBegin as it would be if a firing were skipped while a detector call
\* is pending
SampleBegin_oneAtATime ==
  /\ isDetectingRef /\ cap # <<>> /\ videoReady /\ ~sampled
  /\ inflight = <<>>
  /\ Commit(Settle(World,
                   [Step(World) EXCEPT
                      !.smp = TRUE,
                      !.pend = Append(@, [c |-> cap[1], overtaken |-> FALSE])],
                   videoReady, now))
  /\ UNCHANGED <<stopClicked, videoReady, now>>

\* a firing of the interval whose detector call takes time: the callback
\* passes its guard and awaits the detector, whether or not earlier calls
\* are still pending ...
SampleBegin ==
  /\ isDetectingRef /\ cap # <<>> /\ videoReady /\ ~sampled
  /\ Len(inflight) < MaxInflight
  /\ Commit(Settle(World,
                   [Step(World) EXCEPT
                      !.smp = TRUE,
                      !.pend = Append(@, [c |-> cap[1], overtaken |-> FALSE])],
                   videoReady, now))
  /\ UNCHANGED <<stopClicked, videoReady, now>>

\* a firing of the interval at a moment when no detector call is pending
SampleBeginAlone == inflight = <<>> /\ SampleBegin

\* ... and goes on when the detector call resolves, whatever happened in
\* between
SampleEnd ==
  /\ \E i \in 1..Len(inflight), detection \in {<<>>} \cup {<<f>> : f \in Frames} :
       LET rest == [j \in 1..(Len(inflight) - 1) |->
                      IF j < i THEN [inflight[j] EXCEPT !.overtaken = TRUE]
                      ELSE inflight[j + 1]]
       IN Commit(Settle(World,
                        sampleResolved(inflight[i].c,
                                       [Step(World) EXCEPT
                                          !.pend = rest,
                                          !.o.stale = inflight[i].overtaken],
                                       detection, now),
                        videoReady, now))
  /\ UNCHANGED <<stopClicked, videoReady, now>>

\* a firing of the interval in which the detector throws
SampleError ==
  /\ isDetectingRef /\ cap # <<>> /\ videoReady /\ ~sampled
  /\ Commit(Settle(World,
                   sampleThrown(cap[1], [Step(World) EXCEPT !.smp = TRUE]),
                   videoReady, now))
  /\ UNCHANGED <<stopClicked, videoReady, now>>

\* calculateAttentionScore and assessFatigueLevel applied to the arguments
\* drawn at the start
Analyze ==
  /\ obs.input # <<>> /\ obs.kind # "score"
  /\ LET i == obs.input[1]
         attentionScore == calculateAttentionScore(i.ear, i.mar, i.headPose,
                                                   i.gazeDirection, i.blinkRate)
         fatigueLevel == assessFatigueLevel(attentionScore, i.ear,
                                            i.consecutiveDrowsyFrames)
         abs(x) == IF x < 0 THEN -x ELSE x
         isDrowsy == \/ i.ear < 20 \/ i.mar > 40 \/ abs(i.headPose.pitch) > 25
                     \/ assessDrowsinessFromBlinks(i.blinkRate)
     IN obs' = [obs EXCEPT !.kind = "score",
                           !.result = <<[isDrowsy |-> isDrowsy,
                                         attentionScore |-> attentionScore,
                                         fatigueLevel |-> fatigueLevel,
                                         ear |-> i.ear, mar |-> i.mar,
                                         headPose |-> i.headPose,
                                         gazeDirection |-> i.gazeDirection,
                                         blinkRate |-> i.blinkRate]>>]
  /\ UNCHANGED <<timer, gate, hook, faceDetectionTimeoutRef, isDetectingRef, cap,
                 retry, sampled, stopClicked, videoReady, now, localStorage,
                 loading, tracker, inflight>>

ConfirmTimeout ==
  /\ faceDetectionTimeoutRef # Null /\ now >= faceDetectionTimeoutRef
  /\ Commit(Settle(World,
                   [Step(World) EXCEPT
                      !.g.canStartTimer = TRUE, !.tmo = Null,
                      !.o.confirmed = TRUE],
                   videoReady, now))
  /\ UNCHANGED <<stopClicked, videoReady, now>>

SelectTaskIn(S) ==
  /\ \E task \in S :
       Commit(Settle(World,
                     [Step(World) EXCEPT !.t = startTimer(timer, timer, task, now),
                                         !.o.started = task,
                                         !.o.manual = FALSE],
                     videoReady, now))
  /\ UNCHANGED <<stopClicked, videoReady, now>>

SelectTask == SelectTaskIn(Tasks)

SelectFirstTask == SelectTaskIn({1})

PauseTimer ==
  /\ Commit(Settle(World, [Step(World) EXCEPT !.t = pauseTimer(timer, timer),
                                              !.o.kind = "pause",
                                              !.o.manual = @ \/ (gate.isCameraMode
                                                                 /\ timer.isActive
                                                                 /\ ~timer.isPaused)],
                   videoReady, now))
  /\ UNCHANGED <<stopClicked, videoReady, now>>

ResumeTimer ==
  /\ Commit(Settle(World, [Step(World) EXCEPT !.t = resumeTimer(timer, timer, now),
                                              !.o.kind = "resume",
                                              !.o.manual = FALSE],
                   videoReady, now))
  /\ UNCHANGED <<stopClicked, videoReady, now>>

StopTimer ==
  /\ Commit(Settle(World,
                   [Step(World) EXCEPT
                      !.t = stopTimer(timer, timer),
                      !.ls = stopTimerStorage(timer, localStorage),
                      !.o.kind = "stop", !.o.manual = FALSE],
                   videoReady, now))
  /\ UNCHANGED <<stopClicked, videoReady, now>>

ResetTimer ==
  /\ Commit(Settle(World,
                   [Step(World) EXCEPT
                      !.t = resetTimer(timer, timer),
                      !.ls = resetTimerStorage(timer, localStorage),
                      !.o.kind = "reset", !.o.manual = FALSE,
                      !.o.reached = IF timer.activeTask # NoTask
                                    THEN [@ EXCEPT ![timer.activeTask] = 0]
                                    ELSE @],
                   videoReady, now))
  /\ UNCHANGED <<stopClicked, videoReady, now>>

StopButton ==
  /\ timer.activeTask # NoTask /\ (timer.isActive \/ gate.isWaitingForFace)
  /\ ~stopClicked /\ gate.isCameraMode
  /\ Commit(Settle(World,
                   [Step(World) EXCEPT
                      !.t = stopTimer(timer, timer),
                      !.ls = stopTimerStorage(timer, localStorage),
                      !.o.kind = "stop", !.o.manual = FALSE],
                   videoReady, now))
  /\ stopClicked' = TRUE
  /\ UNCHANGED <<videoReady, now>>

StopButtonFinish ==
  /\ stopClicked
  /\ Commit(Settle(World, [Step(World) EXCEPT !.g.isCameraMode = FALSE],
                   FALSE, now))
  /\ stopClicked' = FALSE
  /\ videoReady' = FALSE
  /\ UNCHANGED now

Tick ==
  /\ tickEnabled(timer)
  /\ tick(timer, now) # timer
  /\ Commit(Settle(World, [Step(World) EXCEPT !.t = tick(timer, now)],
                   videoReady, now))
  /\ UNCHANGED <<stopClicked, videoReady, now>>

\* time passes; a confirmation timeout that is due fires before time moves on
\* the page is closed or crashes and is opened again: the first render has
\* the initial state; its load effect reads localStorage and queues the loaded
\* state, then its save effect writes the initial state's taskTimes
Reload ==
  /\ timer' = timer0
  /\ gate' = gate0
  /\ hook' = [hook0 EXCEPT !.lastDetectionTime = now]
  /\ faceDetectionTimeoutRef' = Null
  /\ isDetectingRef' = FALSE
  /\ cap' = <<>>
  /\ retry' = {}
  /\ sampled' = FALSE
  /\ stopClicked' = FALSE
  /\ videoReady' = FALSE
  /\ loading' = <<loadTimerState(localStorage, now)>>
  /\ localStorage' = saveTimerState(timer0, localStorage)
  /\ tracker' = tracker0
  /\ inflight' = <<>>
  /\ obs' = [obs0 EXCEPT !.fine = obs.fine, !.reloaded = TRUE,
                          !.reached = obs.reached]
  /\ UNCHANGED now

\* the render that applies what the load effect queued, and its effects
LoadCommit ==
  /\ loading # <<>>
  /\ Apply(Settle(World,
                  [Step(World) EXCEPT !.t = loading[1]],
                  videoReady, now))
  /\ loading' = <<>>
  /\ UNCHANGED <<stopClicked, videoReady, now>>

Advance ==
  /\ loading = <<>>
  /\ ~(faceDetectionTimeoutRef # Null /\ now >= faceDetectionTimeoutRef)
  /\ \E d \in {SampleInterval, CoarseStep} :
       /\ now + d <= T0 + MaxTime
       /\ d = SampleInterval => obs.fine < MaxFine
       /\ now' = now + d
       /\ obs' = [obs EXCEPT !.started = NoTask, !.auto = FALSE,
                             !.notified = FALSE, !.confirmed = FALSE,
                             !.kind = "", !.result = <<>>,
                             !.refused = FALSE, !.moved = "", !.stale = FALSE,
                             !.ran = IF ~timer.isActive THEN 0
                                     ELSE IF timer.isPaused THEN @ ELSE @ + d,
                             !.late = timer.isActive /\ @,
                             !.fine = IF d = SampleInterval THEN @ + 1 ELSE @]
  /\ sampled' = FALSE
  /\ UNCHANGED <<timer, gate, hook, faceDetectionTimeoutRef, isDetectingRef, cap,
                 retry, stopClicked, videoReady, localStorage, loading, tracker,
                 inflight>>

\* time passes by one sampling period, several times in a row
AdvanceFrame ==
  /\ loading = <<>>
  /\ ~(faceDetectionTimeoutRef # Null /\ now >= faceDetectionTimeoutRef)
  /\ now + SampleInterval <= T0 + MaxTime
  /\ obs.fine < MaxFrames
  /\ now' = now + SampleInterval
  /\ obs' = [obs EXCEPT !.started = NoTask, !.auto = FALSE,
                        !.notified = FALSE, !.confirmed = FALSE,
                        !.kind = "", !.result = <<>>,
                        !.refused = FALSE, !.moved = "", !.stale = FALSE,
                        !.ran = IF ~timer.isActive THEN 0
                                ELSE IF timer.isPaused THEN @
                                ELSE @ + SampleInterval,
                        !.late = timer.isActive /\ @,
                        !.fine = @ + 1]
  /\ sampled' = FALSE
  /\ UNCHANGED <<timer, gate, hook, faceDetectionTimeoutRef, isDetectingRef, cap,
                 retry, stopClicked, videoReady, localStorage, loading, tracker,
                 inflight>>

Next ==
  \/ ModelLoaded \/ ToggleCameraModeOn \/ ToggleCameraModeOff \/ VideoReady
  \/ RetryStartDetection \/ Sample \/ ConfirmTimeout
  \/ SelectTask \/ PauseTimer \/ ResumeTimer \/ StopTimer \/ ResetTimer
  \/ StopButton \/ StopButtonFinish \/ Tick \/ Reload \/ LoadCommit
  \/ SampleBegin \/ SampleEnd \/ SampleError \/ Advance \/ AdvanceFrame

Spec == Init /\ [][Next]_vars

\* the gate and the sampling loop; the timer is driven by task selection,
\* the stop button and the callbacks, and is not ticked
NextGate ==
  \/ ModelLoaded \/ ToggleCameraModeOn \/ ToggleCameraModeOff \/ VideoReady
  \/ RetryStartDetection \/ Sample \/ ConfirmTimeout
  \/ SelectFirstTask \/ StopTimer \/ Advance

SpecGate == Init /\ [][NextGate]_vars

\* the TimerProvider alone: camera mode is never entered
NextTimer ==
  \/ SelectTask \/ PauseTimer \/ ResumeTimer \/ StopTimer \/ ResetTimer
  \/ Tick \/ Advance

SpecTimer == Init /\ [][NextTimer]_vars

\* the TimerProvider with its persistence: the page may be reloaded at any time
NextStore == NextTimer \/ Reload \/ LoadCommit

SpecStore == Init /\ [][NextStore]_vars

\* a timer that is running when camera mode is switched on: the sampling loop
\* pauses it, the user resumes it
NextAuto ==
  \/ ModelLoaded \/ ToggleCameraModeOn \/ Sample \/ SelectFirstTask
  \/ PauseTimer \/ ResumeTimer \/ Tick \/ Advance

SpecAuto == Init /\ [][NextAuto]_vars

\* the sampling loop with detector calls that take time (each is answered
\* before the next firing), started and stopped by the camera mode
NextDetect ==
  \/ ModelLoaded \/ ToggleCameraModeOn \/ ToggleCameraModeOff \/ VideoReady
  \/ SampleBeginAlone \/ SampleEnd \/ ConfirmTimeout \/ Advance

SpecDetect == Init /\ [][NextDetect]_vars

\* a run of frames sampled one sampling period after the other
NextFrames ==
  \/ ModelLoaded \/ ToggleCameraModeOn \/ SampleBeginAlone \/ SampleEnd
  \/ AdvanceFrame

SpecFrames == Init /\ [][NextFrames]_vars

\* a run of frames whose detector calls may take longer than a sampling
\* period and may be answered in any order
NextOverlap ==
  \/ ModelLoaded \/ ToggleCameraModeOn \/ SampleBegin \/ SampleEnd
  \/ AdvanceFrame

SpecOverlap == Init /\ [][NextOverlap]_vars

\* a timer that runs while the sampling loop watches the user frame after
\* frame, the tracker being written by every frame
NextWatch ==
  \/ ModelLoaded \/ SelectFirstTask \/ ToggleCameraModeOn
  \/ SampleBeginAlone \/ SampleEnd \/ AdvanceFrame

SpecWatch == Init /\ [][NextWatch]_vars

\* the analysis functions on their own, applied to arguments drawn at the
\* start
InitAnalysis ==
  /\ timer = timer0
  /\ gate = gate0
  /\ hook = hook0
  /\ faceDetectionTimeoutRef = Null
  /\ isDetectingRef = FALSE
  /\ cap = <<>>
  /\ retry = {}
  /\ sampled = FALSE
  /\ stopClicked = FALSE
  /\ videoReady = FALSE
  /\ now = T0
  /\ localStorage = saveTimerState(timer0, storage0)
  /\ loading = <<>>
  /\ tracker = tracker0
  /\ inflight = <<>>
  /\ \E i \in AnalysisInputs : obs = [obs0 EXCEPT !.input = <<i>>]

NextAnalysis == Analyze

SpecAnalysis == InitAnalysis /\ [][NextAnalysis]_vars

\* the sampling loop with a detector that may throw, over a timer the user
\* starts and stops
NextFail ==
  \/ ModelLoaded \/ ToggleCameraModeOn \/ VideoReady \/ SelectFirstTask
  \/ StopTimer \/ Sample \/ SampleError \/ ConfirmTimeout \/ Advance

SpecFail == Init /\ [][NextFail]_vars


\* ================================================================= claims
Running(t) == t.isActive /\ ~t.isPaused
Paused(t) == t.isActive /\ t.isPaused
Idle(t) == ~t.isActive

C3_ReadyHeldUntilTask ==
  [][(/\ gate.canStartTimer /\ Idle(timer) /\ timer.activeTask = NoTask
      /\ gate'.isCameraMode /\ timer'.activeTask = NoTask)
     => gate'.canStartTimer]_vars

\* C4: an automatic start consumes the confirmation; the next automatic start
\* needs the gate to be armed again.
C4_ConfirmedOneShot == [][obs'.auto => ~obs.consumed]_vars

\* C5: while Running in camera mode, a no-face notification or a result with
\* attentionScore < 30 or fatigue high moves the timer to Paused.
C5_AutoPause ==
  [][(/\ Running(timer) /\ gate.isCameraMode
      /\ \/ obs'.notified
         \/ /\ obs'.kind = "face"
            /\ \/ obs'.result[1].attentionScore < PauseScore
               \/ obs'.result[1].fatigueLevel = "high")
     => Paused(timer')]_vars

\* C6: while Paused in camera mode, a result with attentionScore > 40 moves the
\* timer to Running.
C6_AutoResume ==
  [][(/\ Paused(timer) /\ gate.isCameraMode /\ obs'.kind = "face"
      /\ obs'.result[1].attentionScore > ResumeScore)
     => Running(timer')]_vars

\* C7: within one absence episode the no-face notification is delivered once.
C7_NotifiedOncePerEpisode == obs.fires <= 1

\* C8: a sample without a face taken within NoFaceTimeout of the latest face
\* does not deliver the notification.
C8_NoNotificationAfterRecentFace ==
  [][(obs.lastFace /\ now - hook.lastDetectionTime <= NoFaceTimeout)
     => ~obs'.notified]_vars

\* C9: startTimer(task) makes the task active and the timer Running, with the
\* start reference at now minus the time stored for the task; every elapsed
\* value a running timer then shows is now minus the start reference.
C9_StartFromStored ==
  /\ [](obs.started # NoTask =>
          /\ timer.activeTask = obs.started /\ Running(timer)
          /\ timer.startTime = now - timer.taskTimes[obs.started]
          /\ timer.elapsedTime = timer.taskTimes[obs.started])
  /\ [][(/\ Running(timer) /\ Running(timer')
         /\ obs'.started = NoTask
         /\ timer'.elapsedTime # timer.elapsedTime)
        => timer'.elapsedTime = now - timer'.startTime]_vars

\* a task is started again from a stored time and has ticked since
C9_Witness ==
  /\ Running(timer) /\ timer.taskTimes[timer.activeTask] > 0
  /\ timer.elapsedTime > timer.taskTimes[timer.activeTask]

\* C10: while Running the elapsed time of the active task never decreases.
C10_RunningMonotonic ==
  [][(Running(timer) /\ Running(timer') /\ timer'.activeTask = timer.activeTask)
     => timer'.elapsedTime >= timer.elapsedTime]_vars


\* C11: resumeTimer in Paused puts the start reference at now minus the frozen
\* elapsed time and makes the timer Running.
C11_ResumeFromFrozen ==
  [][(Paused(timer) /\ Running(timer') /\ obs'.started = NoTask)
     => timer'.startTime = now - timer.elapsedTime]_vars


\* C12: at tick granularity (every Running phase since the start ended at an
\* instant at which the tick interval had fired), a pause leaves the timer
\* Paused with the time stored for the task at its start plus the time spent
\* Running, and a stop stores that sum for the task, whatever time was spent
\* Paused.
C12_SumOfRunning ==
  /\ [][(Running(timer) /\ Paused(timer') /\ ~obs'.late)
        => timer'.elapsedTime = timer.taskTimes[timer.activeTask] + obs.ran]_vars
  /\ [][(/\ timer.isActive /\ ~timer'.isActive
         /\ timer.activeTask # NoTask /\ timer'.activeTask = timer.activeTask
         /\ ~obs'.late)
        => timer'.taskTimes[timer.activeTask]
             = timer.taskTimes[timer.activeTask] + obs.ran]_vars

\* C13: stopTimer called while the timer is Running or Paused leaves it Idle
\* (until an effect of the render that follows starts it again) and stores the
\* elapsed time it had under the id of the active task, in the per-task map in
\* memory and in the task_times key of localStorage.
C13_StopStores ==
  [][(obs'.kind = "stop" /\ timer.isActive)
     => /\ Idle(timer') \/ obs'.auto
        /\ timer'.taskTimes[timer.activeTask] = timer.elapsedTime
        /\ localStorage'.task_times # <<>>
        /\ localStorage'.task_times[1][timer.activeTask] = timer.elapsedTime]_vars

\* a stop has stored a time that was reached while Paused
C13_Witness ==
  /\ obs.kind = "stop" /\ Idle(timer) /\ timer.activeTask # NoTask
  /\ timer.taskTimes[timer.activeTask] > 0
  /\ localStorage.task_times = <<timer.taskTimes>>

\* C14 (as stated): after stopTimer there is no active task, in memory and in
\* the timer_state record of localStorage.
C14_StopClearsTask ==
  [][obs'.kind = "stop"
     => /\ timer'.activeTask = NoTask
        /\ \/ localStorage'.timer_state = <<>>
           \/ localStorage'.timer_state[1].task = NoTask]_vars

\* C14 (amended): stopTimer keeps the active task: after it the task is still
\* the active one in memory, and the timer_state record of localStorage names
\* it, with the phase the timer is left in and not paused.
C14_StopKeepsTask ==
  [][(obs'.kind = "stop" /\ timer.activeTask # NoTask)
     => /\ timer'.activeTask = timer.activeTask
        /\ localStorage'.timer_state # <<>>
        /\ localStorage'.timer_state[1].task = timer.activeTask
        /\ localStorage'.timer_state[1].active = timer'.isActive
        /\ ~localStorage'.timer_state[1].paused]_vars

\* a Running or Paused timer has been stopped and its task is still recorded
C14_Witness ==
  /\ obs.kind = "stop" /\ timer.activeTask # NoTask /\ timer.elapsedTime > 0
  /\ localStorage.timer_state
       = <<[task |-> timer.activeTask, elapsed |-> timer.elapsedTime,
            active |-> FALSE, paused |-> FALSE]>>

\* C15: starting a task continues from the elapsed time the task had when it
\* was last the active task; only resetTimer takes a task's time back.
C15_ContinuesFromReached ==
  [][obs'.started # NoTask
     => timer'.elapsedTime = obs.reached[obs'.started]]_vars

\* C16: a pause request (the user's, or the sampling loop's on a low score or
\* on absence) changes the timer state only when the timer is Running, and
\* then makes it Paused; a resume request (the user's, or the sampling loop's
\* on a good score) changes it only when the timer is Paused, and then makes
\* it Running; a request repeated at once changes nothing.
C16_NoOpOutsideSourceState ==
  /\ [][(obs'.kind \in {"pause", "resume", "face", "absent"} /\ ~obs'.auto
         /\ timer' # timer)
        => \/ Running(timer) /\ Paused(timer')
           \/ Paused(timer) /\ Running(timer')]_vars
  /\ [][(obs.kind = obs'.kind /\ obs'.kind \in {"pause", "resume"})
        => timer' = timer]_vars

\* the state l that the load effect produces has the task, the phase, the
\* elapsed time and the per-task times of state t
Recovered(l, t) ==
  /\ l.activeTask = t.activeTask
  /\ l.isActive = t.isActive /\ l.isPaused = t.isPaused
  /\ l.elapsedTime = t.elapsedTime
  /\ l.taskTimes = t.taskTimes

\* C17: at every point, loading from localStorage gives back the active task,
\* the phase, the elapsed time and the per-task times the timer has (while a
\* reloaded page has not yet applied what it read: those it read), and a time
\* stored for a task in task_times is never seen to vanish except by
\* resetTimer.
C17_WriteThrough ==
  /\ [](Recovered(loadTimerState(localStorage, now),
                  IF loading = <<>> THEN timer ELSE loading[1]))
  /\ [][\A k \in Tasks :
          (/\ localStorage.task_times # <<>>
           /\ localStorage.task_times[1][k] > 0
           /\ obs'.kind # "reset")
          => /\ localStorage'.task_times # <<>>
             /\ localStorage'.task_times[1][k] > 0]_vars

\* C18: while the timer is Running or Paused the manual pause / resume
\* control is shown and is not disabled, whatever the gate state.
C18_PauseControlAvailable ==
  timer.isActive
    => pauseButtonShown(timer, gate) /\ ~pauseButtonDisabled(gate)

\* C19: onFaceDetected or onFaceNotDetected is delivered only while detection
\* is running: never between a stopDetection and the next startDetection.
C19_NoCallbackAfterStop ==
  [][(obs'.kind = "face" \/ obs'.notified) => isDetectingRef]_vars

\* C20: while detection is stopped the blink tracker and the
\* consecutive-drowsy-frame counter have their initial values.
C20_TrackerClearedWhileStopped ==
  ~isDetectingRef => tracker = tracker0

C23_ErrorCountsAsNoFace ==
  [][(/\ obs'.kind = "error" /\ cap # <<>>
      /\ now - cap[1].lastDetectionTime > NoFaceTimeout)
     => obs'.notified]_vars

\* C24: the timer is started automatically only when the latest detector
\* call of the running detection returned a face, never while every call
\* since some point failed or found no face.
C24_NoAutoStartDuringFailure ==
  obs.auto => obs.lastFace

\* C25: a sample with the eyes below the blink threshold leaves the blink log
\* alone and the closure start at the first such sample; a sample with the
\* eyes open again appends exactly one timestamp when the closure lasted
\* between 100 and 500 ms, and none otherwise.
C25_BlinkRecorded ==
  [][obs'.kind = "face"
     => IF obs'.result[1].ear < BlinkThreshold
        THEN /\ tracker'.blinkTimestamps = tracker.blinkTimestamps
             /\ tracker'.lastBlinkTime = obs'.closedAt
        ELSE Len(tracker'.blinkTimestamps)
               = Len(tracker.blinkTimestamps)
                 + (IF /\ obs.closedAt # Null
                       /\ now - obs.closedAt >= MinBlinkDuration
                       /\ now - obs.closedAt <= MaxBlinkDuration
                    THEN 1 ELSE 0)]_vars

\* C26: the blink rate delivered with a frame is the number of timestamps in
\* the blink log, the one of this frame included, that are at most 60000 ms
\* old.
C26_BlinkRateIsLogCount ==
  [][obs'.kind = "face"
     => obs'.result[1].blinkRate = recentBlinks(tracker'.blinkTimestamps, now)]_vars

\* the largest of the deductions that apply
Severest(deductions) ==
  IF deductions = {} THEN 0
  ELSE CHOOSE d \in deductions : \A e \in deductions : e <= d

C28_FatigueFromCurrentCount ==
  [][obs'.kind = "face"
     => LET r == obs'.result[1]
        IN r.fatigueLevel
             \in {assessFatigueLevel(r.attentionScore, r.ear,
                                     tracker.consecutiveDrowsyFrames),
                  assessFatigueLevel(r.attentionScore, r.ear,
                                     tracker'.consecutiveDrowsyFrames)}]_vars

C31_OffDisarms ==
  ~gate.isCameraMode
    => /\ ~gate.isWaitingForFace
       /\ gate.faceDetectedStartTime = Null
       /\ ~gate.canStartTimer
       /\ faceDetectionTimeoutRef = Null
       /\ ~obs.auto

C33_SamplingNotBlocked ==
  (/\ isDetectingRef /\ cap # <<>> /\ videoReady /\ ~sampled
   /\ Len(inflight) < MaxInflight)
    => ENABLED SampleBegin

\* a sample has just been taken while the call for the one before is pending
C33_Witness == Len(inflight) = 2 /\ sampled /\ isDetectingRef

\* C34: detector responses take effect in sample order: the response for a
\* frame older than one already answered delivers no analysis callback and
\* no no-face notification, and the last-face time never moves backwards.
C34_ResponsesInOrder ==
  /\ [](obs.stale => (obs.kind # "face" /\ ~obs.notified))
  /\ [][hook'.lastDetectionTime >= hook.lastDetectionTime]_vars

\* C35: the timer flags always form one of three phases, Idle (not active,
\* not paused), Running (active, not paused, start reference set) or Paused
\* (active, paused): paused is never set without active, and an active timer
\* always has an active task.
C35_ThreePhases ==
  /\ timer.isPaused => timer.isActive
  /\ Running(timer) => timer.startTime # Null
  /\ timer.isActive => timer.activeTask # NoTask

\* C36: whenever the timer is Running or Paused the gate is disarmed: neither
\* the waiting flag nor canStartTimer is set.
C36_ActiveMeansDisarmed ==
  timer.isActive => (~gate.isWaitingForFace /\ ~gate.canStartTimer)

\* C37: while camera mode is on, the model is loaded, detection is running
\* and the timer is Idle, the gate is not stuck disarmed: it is waiting for a
\* face or holding a confirmation.
C37_NeverStuckDisarmed ==
  (gate.isCameraMode /\ hook.isModelLoaded /\ hook.isDetecting /\ Idle(timer))
    => (gate.isWaitingForFace \/ gate.canStartTimer)

\* a fully attentive frame: eyes open, mouth closed, head still, gaze centred
Attentive(r) ==
  LET abs(x) == IF x < 0 THEN -x ELSE x
  IN /\ r.ear >= 25 /\ r.mar <= 40 /\ r.gazeDirection = "center"
     /\ abs(r.headPose.yaw) + abs(r.headPose.pitch) + abs(r.headPose.roll) <= 25

\* C38: a fully attentive frame never pauses the timer, whatever the blink
\* log holds (in particular while it holds fewer than 12 blinks).
C38_AttentiveNeverPaused ==
  [][(obs'.kind = "face" /\ Attentive(obs'.result[1]))
     => (obs'.moved # "paused" /\ (Running(timer) => Running(timer')))]_vars

\* an attentive frame, counted as drowsy for its blink rate, has been
\* delivered to a callback that sees the timer Running in camera mode
C38_Witness ==
  /\ obs.kind = "face" /\ Attentive(obs.result[1])
  /\ obs.result[1].blinkRate < 12 /\ obs.result[1].isDrowsy
  /\ Running(timer) /\ gate.isCameraMode
  /\ cap # <<>> /\ cap[1].g.isCameraMode /\ cap[1].t.isActive /\ ~cap[1].t.isPaused

C40_ManualPauseKept == obs.manual => Paused(timer)

====
